---- MODULE Spec2Model ----
(***************************************************************************)
(* Model of src/src/App.tsx: the trajectory recorder component.            *)
(*                                                                         *)
(* The component is a React function component.  Its useState cells are    *)
(* the variables image .. canvasScale below, holding the values of the     *)
(* last committed render.  A set-state call made from a timer callback     *)
(* (setTimeout, setInterval) or from an image "load" event is batched: it  *)
(* is put in `queue` and applied by the next render (action Render).  A    *)
(* set-state call made from a discrete DOM event (keydown, resize, input   *)
(* change) is rendered and committed, and its effects are run, before the  *)
(* event loop takes the next task, so those handlers are one step each.    *)
(* The functions created by useEffect / useCallback close over the values  *)
(* of the render that created them; the effects of a batched render run    *)
(* in a later task (action FlushEffects), so between Render and            *)
(* FlushEffects the registered listeners still hold the older values.      *)
(*                                                                         *)
(* Units: the clock `now` counts half milliseconds, pointer positions are  *)
(* CSS pixels, x and y of a sample are hundredths of a logical unit        *)
(* (the two decimals kept by toFixed(2)).                                  *)
(***************************************************************************)
EXTENDS Integers, Sequences, FiniteSets, TLC

\* ------------------------------------------------------------- bounds
\* number of countdowns that may elapse
MaxSessions == 2
\* number of sampler ticks in one recording
MaxTicks == 2

\* ------------------------------------------------------------- constants
\* setTimeout(..., 3000): the countdown, in milliseconds
CountdownDelay == 3000
\* useState(10): the initial maxX and maxY
InitialMax == 10

\* ------------------------------------------------------------- inputs
\* the image a user may upload (natural width and height)
NoImage == [w |-> 0, h |-> 0]
Images == {[w |-> 9, h |-> 6]}
\* window.innerWidth / innerHeight
Viewports == {[w |-> 10, h |-> 10], [w |-> 20, h |-> 20]}
InitialViewport == [w |-> 10, h |-> 10]
\* values typed into the maxX / maxY fields
BoundInputs == {20}
\* time that may pass between two readings of performance.now()
ClockSteps == {0, 1}
\* where the layout puts the canvas when it is displayed
CanvasOrigin == [left |-> 1, top |-> 1]
\* clientX / clientY of the pointer
MousePoints == {[x |-> 0, y |-> 0], [x |-> 10, y |-> 1], [x |-> 30, y |-> 30]}

\* ------------------------------------------------------------- numbers
RECURSIVE Gcd(_, _)
Gcd(a, b) == IF b = 0 THEN a ELSE Gcd(b, a % b)

\* a non-negative rational number n/d in lowest terms
Frac(n, d) == LET g == Gcd(n, d) IN [n |-> n \div g, d |-> d \div g]

One == [n |-> 1, d |-> 1]

FracMin(a, b) == IF a.n * b.d <= b.n * a.d THEN a ELSE b

\* Math.round of a number of half milliseconds, in milliseconds (a half
\* rounds up)
MathRound(halfMs) == (halfMs + 1) \div 2

\* parseFloat(v.toFixed(2)) of the rational f, in hundredths
ToFixed2(f) == (200 * f.n + f.d) \div (2 * f.d)

Null == <<>>
Some(v) == <<v>>

Loaded(img) == img.w > 0

VARIABLES
  image, maxX, maxY, recording, data, startTime, elapsedTime, waiting,
  canvasScale,                    \* useState cells, as last committed
  lastPointRef, mousePositionRef, \* useRef cells
  strokes,                        \* segments on the canvas bitmap
  drawn,                          \* segments stroked since the last countdown
  now, viewport,                  \* performance.now(), window size
  queue,                          \* batched set-state calls
  effectsPending,                 \* a commit whose effects have not run
  kd,                             \* values closed over by handleKeyDown
  iv,                             \* the registered interval and its closure
  liveIntervals,                  \* setInterval registrations not yet cleared
  ucs,                            \* image closed over by updateCanvasSize
  timeouts,                       \* pending setTimeout callbacks
  called, saved,                  \* the last task's downloadCSV call and file
  ticks,                          \* ticks since the last countdown elapsed
  firedAt,                        \* clock reading of the last countdown
  lastEvent                       \* whether the last task was a key press

react == <<image, maxX, maxY, recording, data, startTime, elapsedTime,
           waiting, canvasScale>>
refs == <<lastPointRef, mousePositionRef, strokes, drawn>>
env == <<now, viewport>>
closures == <<kd, iv, liveIntervals, ucs>>
exportLog == <<called, saved>>
vars == <<react, refs, env, queue, effectsPending, closures, timeouts,
          exportLog, ticks, firedAt, lastEvent>>

\* ------------------------------------------------------------- geometry
\* updateCanvasSize: scale = min(innerWidth*0.9/width, innerHeight*0.6/height)
CanvasScaleFor(img, vp) ==
  FracMin(Frac(9 * vp.w, 10 * img.w), Frac(6 * vp.h, 10 * img.h))

\* useMemo scaleX: image ? maxX / (image.width * canvasScale) : 1
scaleX(img, mx, cs) ==
  IF Loaded(img) THEN Frac(mx * cs.d, img.w * cs.n) ELSE One

\* useMemo scaleY: image ? maxY / (image.height * canvasScale) : 1
scaleY(img, my, cs) ==
  IF Loaded(img) THEN Frac(my * cs.d, img.h * cs.n) ELSE One

\* canvas.getBoundingClientRect() under the committed style: display none
\* without an image, else width = image.width * canvasScale (and height)
BoundingClientRect(img, cs) ==
  IF Loaded(img)
    THEN [left |-> CanvasOrigin.left, top |-> CanvasOrigin.top,
          width |-> Frac(img.w * cs.n, cs.d),
          height |-> Frac(img.h * cs.n, cs.d)]
    ELSE [left |-> 0, top |-> 0, width |-> Frac(0, 1), height |-> Frac(0, 1)]

\* faulty variant: the right and bottom edges are excluded
InsideRect_StrictEdges(m, r) ==
  /\ m.x >= r.left
  /\ (m.x - r.left) * r.width.d < r.width.n
  /\ m.y >= r.top
  /\ (m.y - r.top) * r.height.d < r.height.n

\* mouseX >= rect.left && mouseX <= rect.right && mouseY >= rect.top &&
\* mouseY <= rect.bottom
InsideRect(m, r) ==
  /\ m.x >= r.left
  /\ (m.x - r.left) * r.width.d <= r.width.n
  /\ m.y >= r.top
  /\ (m.y - r.top) * r.height.d <= r.height.n

\* x = rawX * scaleX, rounded to two decimals
MapX(rawX, sx) == ToFixed2(Frac(rawX * sx.n, sx.d))

\* faulty variant: the row is not flipped, y = rawY * scaleY
MapY_NoFlip(rawY, height, sy) == ToFixed2(Frac(rawY * sy.n, sy.d))

\* y = (rect.height - rawY) * scaleY, rounded to two decimals
MapY(rawY, height, sy) ==
  ToFixed2(Frac((height.n - rawY * height.d) * sy.n, height.d * sy.d))

\* faulty variant: the operands of the subtraction are swapped
SampleTime_Reversed(t, st) == MathRound(st - t)

\* time = Math.round(now - startTime)
SampleTime(t, st) == MathRound(t - st)

\* the Point the interval callback builds for pointer m
MakePoint(m, r, c, t) ==
  [time |-> SampleTime(t, c.startTime),
   x |-> MapX(m.x - r.left, c.scaleX),
   y |-> MapY(m.y - r.top, r.height, c.scaleY)]

\* ------------------------------------------------------------- closures
\* what handleKeyDown (and downloadCSV inside it) closes over
KeyClosure(rec, wait, dat, img) ==
  [recording |-> rec, waiting |-> wait, data |-> dat, image |-> img]

\* the sampler effect: no interval unless recording and startTime are set
\* (canvasRef.current is set from the first commit on)
IntervalOf(rec, st, img, mx, my, cs) ==
  IF rec /\ st # 0
    THEN Some([startTime |-> st, scaleX |-> scaleX(img, mx, cs),
               scaleY |-> scaleY(img, my, cs)])
    ELSE Null

\* faulty variant: the effect returns no cleanup
ClearInterval_Missing(n, registered) == n

\* the sampler effect's cleanup: clearInterval(intervalId), when the effect
\* had registered one
ClearInterval(n, registered) == IF registered # Null THEN n - 1 ELSE n

\* window.setInterval in the sampler effect, when it gets past the guard
SetInterval(n, registered) == IF registered # Null THEN n + 1 ELSE n

\* ------------------------------------------------------------- export
\* ["time,x,y", ...data.map(d => `${d.time},${d.x},${d.y}`)]
Csv(d) == <<"time,x,y">> \o [i \in 1..Len(d) |-> <<d[i].time, d[i].x, d[i].y>>]

\* faulty variant: no early return on an empty sequence
downloadCSV_NoGuard(d) == Some(Csv(d))

\* downloadCSV: if (!data.length) return; else saveAs is given the file
downloadCSV(d) == IF Len(d) = 0 THEN Null ELSE Some(Csv(d))

\* a task that does not call downloadCSV
NoExport == called' = FALSE /\ saved' = Null

\* ------------------------------------------------------------- updates
Upd(op, val) == [op |-> op, val |-> val]

Current ==
  [image |-> image, maxX |-> maxX, maxY |-> maxY, recording |-> recording,
   data |-> data, startTime |-> startTime, elapsedTime |-> elapsedTime,
   waiting |-> waiting, canvasScale |-> canvasScale,
   lastPointRef |-> lastPointRef, strokes |-> strokes, drawn |-> drawn]

\* faulty variant: the updater returns the new point alone, not [...prev, p]
AppendPoint_DropsPrev(s, v) ==
  [s EXCEPT !.data = <<v.point>>,
            !.strokes = IF s.lastPointRef # Null
                          THEN Append(@, <<s.lastPointRef[1], v.raw>>)
                          ELSE @,
            !.drawn = IF s.lastPointRef # Null
                        THEN Append(@, <<s.lastPointRef[1], v.raw>>)
                        ELSE @,
            !.lastPointRef = Some(v.raw)]

\* the updater given to setData by the interval callback: appends the point,
\* strokes from the last point when there is one, and moves the last point
AppendPoint(s, v) ==
  [s EXCEPT !.data = Append(@, v.point),
            !.strokes = IF s.lastPointRef # Null
                          THEN Append(@, <<s.lastPointRef[1], v.raw>>)
                          ELSE @,
            !.drawn = IF s.lastPointRef # Null
                        THEN Append(@, <<s.lastPointRef[1], v.raw>>)
                        ELSE @,
            !.lastPointRef = Some(v.raw)]

ApplyUpdate(s, u) ==
  CASE u.op = "clearData" -> [s EXCEPT !.data = <<>>]
    [] u.op = "append" -> AppendPoint(s, u.val)
    [] u.op = "elapsedTime" -> [s EXCEPT !.elapsedTime = u.val]
    [] u.op = "startTime" -> [s EXCEPT !.startTime = u.val]
    [] u.op = "recording" -> [s EXCEPT !.recording = u.val]
    [] u.op = "waiting" -> [s EXCEPT !.waiting = u.val]
    [] u.op = "image" -> [s EXCEPT !.image = u.val]
    [] u.op = "maxX" -> [s EXCEPT !.maxX = u.val]
    [] u.op = "maxY" -> [s EXCEPT !.maxY = u.val]
    [] u.op = "canvasScale" -> [s EXCEPT !.canvasScale = u.val]

RECURSIVE ApplyAll(_, _)
ApplyAll(s, q) ==
  IF q = <<>> THEN s ELSE ApplyAll(ApplyUpdate(s, Head(q)), Tail(q))

\* faulty variant: the countdown callback does not clear the samples
TimeoutUpdates_KeepsData(t) ==
  << Upd("elapsedTime", 0), Upd("startTime", t), Upd("recording", TRUE),
     Upd("waiting", FALSE) >>

\* faulty variant: the countdown callback leaves the waiting flag set
TimeoutUpdates_LeavesWaiting(t) ==
  << Upd("clearData", 0), Upd("elapsedTime", 0), Upd("startTime", t),
     Upd("recording", TRUE) >>

\* faulty variant: the countdown callback ends with setWaiting(true)
TimeoutUpdates_SetsWaiting(t) ==
  << Upd("clearData", 0), Upd("elapsedTime", 0), Upd("startTime", t),
     Upd("recording", TRUE), Upd("waiting", TRUE) >>

\* the set-state calls of the countdown callback, in source order
TimeoutUpdates(t) ==
  << Upd("clearData", 0), Upd("elapsedTime", 0), Upd("startTime", t),
     Upd("recording", TRUE), Upd("waiting", FALSE) >>

\* the set-state calls of one interval callback for pointer m
IntervalUpdates(m, r, c, t) ==
  (IF InsideRect(m, r)
     THEN << Upd("append", [point |-> MakePoint(m, r, c, t),
                            raw |-> [x |-> m.x - r.left, y |-> m.y - r.top]]) >>
     ELSE << >>)
  \o << Upd("elapsedTime", t - c.startTime) >>

\* img.onload: setImage, setMaxX, setMaxY
LoadUpdates(img) ==
  << Upd("image", img), Upd("maxX", img.w), Upd("maxY", img.h) >>

\* ------------------------------------------------------------- state
\* the Recording State Machine's state, read from the two flags
State ==
  CASE recording /\ waiting -> "Both"
    [] recording -> "Recording"
    [] waiting -> "CountingDown"
    [] OTHER -> "Idle"

\* the countdown in clock units (half milliseconds)
Period == 2 * CountdownDelay

Init ==
  /\ image = NoImage
  /\ maxX = InitialMax
  /\ maxY = InitialMax
  /\ recording = FALSE
  /\ data = <<>>
  /\ startTime = 0
  /\ elapsedTime = 0
  /\ waiting = FALSE
  /\ canvasScale = One
  /\ lastPointRef = Null
  /\ mousePositionRef = Null
  /\ strokes = <<>>
  /\ drawn = <<>>
  /\ now = 0
  /\ viewport = InitialViewport
  /\ queue = <<>>
  /\ effectsPending = FALSE
  /\ kd = KeyClosure(FALSE, FALSE, <<>>, NoImage)
  /\ iv = Null
  /\ liveIntervals = 0
  /\ ucs = NoImage
  /\ timeouts = <<>>
  /\ called = FALSE
  /\ saved = Null
  /\ ticks = 0
  /\ firedAt = 0
  /\ lastEvent = "task"

\* ------------------------------------------------------------- React
\* the image effect (useEffect on [image, updateCanvasSize]) is due
ImageEffectDue == effectsPending /\ image # ucs

\* the effects of the last commit: the listeners and the interval are
\* registered again with the committed values (the sampler effect runs its
\* cleanup and its body when one of its dependencies, which the closure
\* `iv` holds, has changed); the image effect calls
\* updateCanvasSize, which sets the scale and redraws the bitmap
RunEffects(strokesBefore) ==
  /\ effectsPending' = FALSE
  /\ kd' = KeyClosure(recording', waiting', data', image')
  /\ iv' = IntervalOf(recording', startTime', image', maxX', maxY',
                      canvasScale')
  /\ liveIntervals' = IF iv' = iv
                        THEN liveIntervals
                        ELSE SetInterval(ClearInterval(liveIntervals, iv), iv')
  /\ ucs' = image'
  /\ queue' = IF ImageEffectDue
                THEN Append(queue, Upd("canvasScale",
                                       CanvasScaleFor(image, viewport')))
                ELSE queue
  /\ strokes' = IF ImageEffectDue THEN <<>> ELSE strokesBefore

\* a render of the batched updates, and its commit
Render ==
  /\ queue # <<>>
  /\ LET s == ApplyAll(Current, queue) IN
       /\ image' = s.image
       /\ maxX' = s.maxX
       /\ maxY' = s.maxY
       /\ recording' = s.recording
       /\ data' = s.data
       /\ startTime' = s.startTime
       /\ elapsedTime' = s.elapsedTime
       /\ waiting' = s.waiting
       /\ canvasScale' = s.canvasScale
       /\ lastPointRef' = s.lastPointRef
       /\ strokes' = s.strokes
       /\ drawn' = s.drawn
       /\ effectsPending' =
            \/ effectsPending
            \/ kd # KeyClosure(s.recording, s.waiting, s.data, s.image)
            \/ iv # IntervalOf(s.recording, s.startTime, s.image, s.maxX,
                               s.maxY, s.canvasScale)
            \/ ucs # s.image
  /\ queue' = <<>>
  /\ lastEvent' = "task"
  /\ NoExport
  /\ UNCHANGED <<mousePositionRef, env, closures, timeouts, ticks, firedAt>>

\* the task that runs the effects of a batched render
FlushEffects ==
  /\ effectsPending
  /\ lastEvent' = "task"
  /\ NoExport
  /\ UNCHANGED <<react, lastPointRef, drawn, mousePositionRef, env, timeouts,
                 ticks, firedAt>>
  /\ RunEffects(strokes)

\* ------------------------------------------------------------- handlers
\* faulty variant: the guard forgets the countdown, if (!recording)
CanStart_IgnoresWaiting(c) == ~c.recording

\* handleKeyDown: if (!recording && !waiting)
CanStart(c) == ~c.recording /\ ~c.waiting

\* faulty variant: a plain else in place of else if (recording)
CanStop_Always(c) == TRUE

\* handleKeyDown: else if (recording)
CanStop(c) == c.recording

\* Space, first branch: setWaiting(true) and the countdown is armed
KeyDownStart ==
  /\ CanStart(kd)
  /\ waiting' = TRUE
  /\ timeouts' = Append(timeouts, [due |-> now + Period, image |-> kd.image])
  /\ lastEvent' = "keydown"
  /\ NoExport
  /\ UNCHANGED <<image, maxX, maxY, recording, data, startTime, elapsedTime,
                 canvasScale, lastPointRef, drawn, mousePositionRef, env, ticks,
                 firedAt>>
  /\ RunEffects(strokes)

\* Space, second branch: setRecording(false); downloadCSV()
KeyDownStop ==
  /\ ~CanStart(kd)
  /\ CanStop(kd)
  /\ recording' = FALSE
  /\ called' = TRUE
  /\ saved' = downloadCSV(kd.data)
  /\ lastEvent' = "keydown"
  /\ UNCHANGED <<image, maxX, maxY, data, startTime, elapsedTime, waiting,
                 canvasScale, lastPointRef, drawn, mousePositionRef, env, timeouts,
                 ticks, firedAt>>
  /\ RunEffects(strokes)

\* Space, neither branch: nothing is set, nothing is rendered
KeyDownIgnored ==
  /\ ~CanStart(kd)
  /\ ~CanStop(kd)
  /\ lastEvent' = "keydown"
  /\ NoExport
  /\ UNCHANGED <<react, refs, env, queue, effectsPending, closures, timeouts,
                 ticks, firedAt>>

handleKeyDown == KeyDownStart \/ KeyDownStop \/ KeyDownIgnored

\* faulty variant: the callback does not reset lastPointRef
Timeout_KeepsLastPoint ==
  /\ timeouts # <<>>
  /\ now >= Head(timeouts).due
  /\ queue' = queue \o TimeoutUpdates(now)
  /\ lastPointRef' = lastPointRef
  /\ strokes' = IF Loaded(Head(timeouts).image) THEN <<>> ELSE strokes
  /\ drawn' = <<>>
  /\ timeouts' = Tail(timeouts)
  /\ ticks' = 0
  /\ firedAt' = now
  /\ lastEvent' = "task"
  /\ NoExport
  /\ UNCHANGED <<react, mousePositionRef, env, effectsPending, closures>>

\* the countdown callback
Timeout ==
  /\ timeouts # <<>>
  /\ now >= Head(timeouts).due
  /\ queue' = queue \o TimeoutUpdates(now)
  /\ lastPointRef' = Null
  /\ strokes' = IF Loaded(Head(timeouts).image) THEN <<>> ELSE strokes
  /\ drawn' = <<>>
  /\ timeouts' = Tail(timeouts)
  /\ ticks' = 0
  /\ firedAt' = now
  /\ lastEvent' = "task"
  /\ NoExport
  /\ UNCHANGED <<react, mousePositionRef, env, effectsPending, closures>>

\* handleMouseMove
handleMouseMove ==
  \E p \in MousePoints :
    /\ mousePositionRef # Some(p)
    /\ mousePositionRef' = Some(p)
    /\ lastEvent' = "task"
    /\ NoExport
    /\ UNCHANGED <<react, lastPointRef, strokes, drawn, env, queue, effectsPending,
                   closures, timeouts, ticks, firedAt>>

\* one call of the interval callback; the clock has moved on by d
Interval ==
  \E d \in ClockSteps :
    /\ iv # Null
    /\ ticks < MaxTicks
    /\ ticks' = ticks + 1
    /\ now' = now + d
    /\ queue' = IF mousePositionRef = Null
                  THEN queue
                  ELSE queue \o IntervalUpdates(
                         mousePositionRef[1],
                         BoundingClientRect(image, canvasScale), iv[1], now')
    /\ lastEvent' = "task"
    /\ NoExport
    /\ UNCHANGED <<react, refs, viewport, effectsPending, closures, timeouts,
                   firedAt>>

\* handleImageUpload, img.onload; one upload is modelled
handleImageUpload ==
  \E img \in Images :
    /\ image = NoImage
    /\ \A i \in 1..Len(queue) : queue[i].op # "image"
    /\ queue' = queue \o LoadUpdates(img)
    /\ lastEvent' = "task"
    /\ NoExport
    /\ UNCHANGED <<react, refs, env, effectsPending, closures, timeouts,
                   ticks, firedAt>>

\* onChange of the maxX field
EditMaxX ==
  \E v \in BoundInputs :
    /\ maxX # v
    /\ maxX' = v
    /\ lastEvent' = "task"
    /\ NoExport
    /\ UNCHANGED <<image, maxY, recording, data, startTime, elapsedTime,
                   waiting, canvasScale, lastPointRef, drawn, mousePositionRef, env,
                   timeouts, ticks, firedAt>>
    /\ RunEffects(strokes)

\* onChange of the maxY field
EditMaxY ==
  \E v \in BoundInputs :
    /\ maxY # v
    /\ maxY' = v
    /\ lastEvent' = "task"
    /\ NoExport
    /\ UNCHANGED <<image, maxX, recording, data, startTime, elapsedTime,
                   waiting, canvasScale, lastPointRef, drawn, mousePositionRef, env,
                   timeouts, ticks, firedAt>>
    /\ RunEffects(strokes)

\* the window is resized; updateCanvasSize is the resize listener
Resize ==
  \E vp \in Viewports :
    /\ viewport # vp
    /\ viewport' = vp
    /\ now' = now
    /\ lastEvent' = "task"
    /\ NoExport
    /\ UNCHANGED <<lastPointRef, drawn, mousePositionRef, timeouts, ticks, firedAt>>
    /\ IF Loaded(ucs)
         THEN /\ canvasScale' = CanvasScaleFor(ucs, vp)
              /\ UNCHANGED <<image, maxX, maxY, recording, data, startTime,
                             elapsedTime, waiting>>
              /\ RunEffects(<<>>)
         ELSE UNCHANGED <<react, strokes, queue, effectsPending, closures>>

\* the clock reading at which the countdown armed before `t` is served: the
\* delay has passed (setTimeout promises no less), on a fixed grid
FiringTime(t) == Period * (2 * ((t + Period) \div (2 * Period)) + 1)

\* the countdown's 3000 ms pass; React's scheduler has run the renders and
\* effects it had pending by then
Countdown ==
  /\ timeouts # <<>>
  /\ now < Head(timeouts).due
  /\ FiringTime(now) <= Period * (2 * MaxSessions - 1)
  /\ queue = <<>>
  /\ ~effectsPending
  /\ now' = FiringTime(now)
  /\ lastEvent' = "task"
  /\ NoExport
  /\ UNCHANGED <<react, refs, viewport, queue, effectsPending, closures,
                 timeouts, ticks, firedAt>>

\* the recorder: keyboard, countdown, pointer, sampler, React, image upload
Next ==
  \/ handleKeyDown
  \/ Timeout
  \/ Countdown
  \/ handleMouseMove
  \/ Interval
  \/ Render
  \/ FlushEffects
  \/ handleImageUpload

Spec == Init /\ [][Next]_vars

\* the recorder with the bounds fields and the window resize as well
NextSurface ==
  \/ Next
  \/ EditMaxX
  \/ EditMaxY
  \/ Resize

SpecSurface == Init /\ [][NextSurface]_vars

\* ------------------------------------------------------------- claims
\* the sample sequence once the batched set-state calls are applied: every
\* sample the ticks so far have appended
PendingData == ApplyAll(Current, queue).data

\* C1: a Space received in CountingDown changes nothing: the state stays
\* CountingDown, the sample sequence is untouched, downloadCSV is not called
\* and no countdown is armed; at most one countdown is pending at any time.
C1_ToggleIgnoredInCountdown ==
  /\ [](Len(timeouts) <= 1)
  /\ [][(State = "CountingDown" /\ lastEvent' = "keydown")
          => /\ State' = "CountingDown"
             /\ data' = data
             /\ queue' = queue
             /\ ~called'
             /\ timeouts' = timeouts]_vars

\* a Space was pressed, and ignored, after the countdown was armed
C1_Witness ==
  /\ lastEvent = "keydown"
  /\ State = "CountingDown"
  /\ timeouts # <<>>
  /\ now >= Head(timeouts).due

\* C2 (as claimed): when Space stops a recording, the file handed to saveAs
\* holds exactly the samples the ticks of this recording appended, in order.
C2_ExportHoldsEverySample == called => saved = downloadCSV(PendingData)

\* C3: when the countdown has elapsed and the state becomes Recording, the
\* sample sequence is empty, lastPointRef is unset and startTime is the clock
\* reading the countdown callback took.
C3_RecordingStartsClean ==
  [][(~recording /\ recording')
       => /\ data' = <<>>
          /\ queue' = <<>>
          /\ lastPointRef' = Null
          /\ startTime' = firedAt
          /\ startTime' = now]_vars

\* a second recording has just begun, after one that drew a stroke
C3_Witness ==
  /\ recording
  /\ data = <<>>
  /\ startTime = firedAt
  /\ startTime >= 3 * Period
  /\ ticks = 0
  /\ strokes # <<>>

\* C4: the state changes only Idle -> CountingDown (by Space),
\* CountingDown -> Recording (by the render of the countdown callback's
\* updates) and Recording -> Idle (by Space).
C4_OnlyThreeTransitions ==
  [][State' # State
       => \/ /\ State = "Idle" /\ State' = "CountingDown"
             /\ lastEvent' = "keydown"
          \/ /\ State = "CountingDown" /\ State' = "Recording"
             /\ lastEvent' = "task" /\ startTime' = firedAt
             /\ timeouts = <<>>
          \/ /\ State = "Recording" /\ State' = "Idle"
             /\ lastEvent' = "keydown"]_vars

\* a cycle is complete: Space has brought Recording back to Idle
C4_Witness ==
  /\ State = "Idle"
  /\ lastEvent = "keydown"
  /\ startTime # 0

\* C5: downloadCSV is called in exactly the steps that take Recording to
\* Idle, and those are key presses: never by a Space in Idle or
\* CountingDown, by the countdown callback or by a sampler tick.
C5_ExportOnStopOnly ==
  [][/\ called' <=> (State = "Recording" /\ State' = "Idle")
     /\ called' => lastEvent' = "keydown"]_vars

\* a recording was stopped and a file was saved
C5_Witness == called /\ saved # Null /\ State = "Idle"

\* C6: stopping a recording whose sample sequence is empty saves no file
\* and leaves the state Idle.
C6_EmptyExportIsNoOp ==
  (called /\ data = <<>>) => (saved = Null /\ State = "Idle")

\* ticks ran with a pointer position known, none of them inside the canvas
C6_Witness ==
  /\ called
  /\ ticks > 0
  /\ PendingData = <<>>
  /\ mousePositionRef # Null

\* C7: the time values of the sample sequence are >= 0 and non-decreasing.
C7_TimesNonDecreasing ==
  \A i \in 1..Len(PendingData) :
    /\ PendingData[i].time >= 0
    /\ i > 1 => PendingData[i].time >= PendingData[i - 1].time

\* two samples with different times
C7_Witness == Len(data) >= 2 /\ data[2].time > data[1].time

\* the pointer position m lies in the canvas rectangle, edges included
WithinSurface(m) ==
  LET r == BoundingClientRect(image, canvasScale) IN
    /\ r.left * r.width.d <= m.x * r.width.d
    /\ m.x * r.width.d <= r.left * r.width.d + r.width.n
    /\ r.top * r.height.d <= m.y * r.height.d
    /\ m.y * r.height.d <= r.top * r.height.d + r.height.n

\* C8: a sampler tick appends exactly one sample when a pointer position
\* is known and lies in the canvas rectangle, edges included, and none
\* otherwise; the sequence is never longer than the number of ticks of the
\* recording.
C8_OneSamplePerTickInside ==
  /\ [](Len(PendingData) <= ticks)
  /\ [][ticks' = ticks + 1
          => Len(PendingData') = Len(PendingData) +
               (IF mousePositionRef # Null /\ WithinSurface(mousePositionRef[1])
                  THEN 1 ELSE 0)]_vars

\* two ticks in a row sampled the same pointer position
C8_Witness ==
  /\ Len(data) >= 2
  /\ strokes # <<>>
  /\ strokes[1][1] = strokes[1][2]

\* ------------------------------------------------------------- mapper
\* The Coordinate Mapper on its own: a recording is under way on an image
\* of MapperImages in a window of Viewports, with maxX and maxY typed in
\* from MapperBounds, and the pointer rests on a corner of the canvas.
MapperImages == {[w |-> 9, h |-> 6], [w |-> 18, h |-> 12]}
MapperBounds == {1, 7, 10, 20}

\* the corners of the canvas rectangle, as pointer positions
BottomLeft ==
  LET r == BoundingClientRect(image, canvasScale) IN
    [x |-> r.left, y |-> r.top + r.height.n \div r.height.d]

TopRight ==
  LET r == BoundingClientRect(image, canvasScale) IN
    [x |-> r.left + r.width.n \div r.width.d, y |-> r.top]

MapperInit ==
  /\ image \in MapperImages
  /\ maxX \in MapperBounds
  /\ maxY \in MapperBounds
  /\ viewport \in Viewports
  /\ canvasScale = CanvasScaleFor(image, viewport)
  /\ recording = TRUE
  /\ waiting = FALSE
  /\ data = <<>>
  /\ startTime = Period
  /\ elapsedTime = 0
  /\ lastPointRef = Null
  /\ mousePositionRef \in {Some(BottomLeft), Some(TopRight)}
  /\ strokes = <<>>
  /\ drawn = <<>>
  /\ now = Period
  /\ queue = <<>>
  /\ effectsPending = FALSE
  /\ kd = KeyClosure(TRUE, FALSE, <<>>, image)
  /\ iv = IntervalOf(TRUE, Period, image, maxX, maxY, canvasScale)
  /\ liveIntervals = 1
  /\ ucs = image
  /\ timeouts = <<>>
  /\ called = FALSE
  /\ saved = Null
  /\ ticks = 0
  /\ firedAt = Period
  /\ lastEvent = "task"

MapperNext ==
  \/ Interval
  \/ Render
  \/ FlushEffects

SpecMapper == MapperInit /\ [][MapperNext]_vars

\* C9 (as claimed): the bottom-left corner maps to (0, maxY) and the
\* top-right corner to (maxX, 0).
C9_CornersAsClaimed ==
  \A i \in 1..Len(data) :
    /\ mousePositionRef = Some(BottomLeft)
         => data[i].x = 0 /\ data[i].y = 100 * maxY
    /\ mousePositionRef = Some(TopRight)
         => data[i].x = 100 * maxX /\ data[i].y = 0

\* C9 (amended): the bottom-left corner maps to (0, 0) and the top-right
\* corner to (maxX, maxY).
C9_CornersMapped ==
  \A i \in 1..Len(data) :
    /\ mousePositionRef = Some(BottomLeft)
         => data[i].x = 0 /\ data[i].y = 0
    /\ mousePositionRef = Some(TopRight)
         => data[i].x = 100 * maxX /\ data[i].y = 100 * maxY

\* a sample taken at the top-right corner of a canvas shown at half size
C9_Witness ==
  /\ data # <<>>
  /\ mousePositionRef = Some(TopRight)
  /\ canvasScale.d = 2
  /\ maxX # maxY

\* C10 (as claimed): without an image the state is never Recording and no
\* sample is appended.
C10_NoRecordingWithoutImage ==
  ~Loaded(image) => (State # "Recording" /\ PendingData = <<>>)

\* the elapsed time once the batched set-state calls are applied
PendingElapsed == ApplyAll(Current, queue).elapsedTime

\* C11 (as claimed): every sampler tick sets the elapsed time to the clock
\* reading minus the start of the recording, whether or not a pointer
\* position is known and whether or not it lies in the canvas rectangle.
C11_ElapsedEveryTick ==
  [][ticks' = ticks + 1 => PendingElapsed' = now' - iv[1].startTime]_vars

\* ------------------------------------------------------------- recording
\* A recording on its own: an image is shown, the countdown has elapsed and
\* the sampler is registered; the pointer moves, the sampler ticks, the
\* bounds fields are edited, the window is resized and Space stops the
\* recording.
RecordingInit ==
  /\ image \in Images
  /\ maxX = image.w
  /\ maxY = image.h
  /\ viewport = InitialViewport
  /\ canvasScale = CanvasScaleFor(image, viewport)
  /\ recording = TRUE
  /\ waiting = FALSE
  /\ data = <<>>
  /\ startTime = Period
  /\ elapsedTime = 0
  /\ lastPointRef = Null
  /\ mousePositionRef = Null
  /\ strokes = <<>>
  /\ drawn = <<>>
  /\ now = Period
  /\ queue = <<>>
  /\ effectsPending = FALSE
  /\ kd = KeyClosure(TRUE, FALSE, <<>>, image)
  /\ iv = IntervalOf(TRUE, Period, image, maxX, maxY, canvasScale)
  /\ liveIntervals = 1
  /\ ucs = image
  /\ timeouts = <<>>
  /\ called = FALSE
  /\ saved = Null
  /\ ticks = 0
  /\ firedAt = Period
  /\ lastEvent = "task"

RecordingNext ==
  \/ Interval
  \/ Render
  \/ FlushEffects
  \/ handleMouseMove
  \/ EditMaxX
  \/ EditMaxY
  \/ Resize
  \/ KeyDownStop

SpecRecording == RecordingInit /\ [][RecordingNext]_vars

\* s is an initial part of t
IsPrefix(s, t) == Len(s) <= Len(t) /\ SubSeq(t, 1, Len(s)) = s

\* C12: while the state stays Recording, every step (tick, pointer move,
\* edit of maxX or maxY, resize, render) keeps the samples recorded so far
\* as a prefix of the sample sequence: committed samples and samples still
\* batched alike, so a change of bounds or scale reaches only later samples.
C12_AppendOnly ==
  [][(recording /\ recording')
       => /\ IsPrefix(data, data')
          /\ IsPrefix(PendingData, PendingData')]_vars

\* the same pointer position sampled before and after maxX was edited
C12_Witness ==
  /\ recording
  /\ Len(data) >= 2
  /\ maxX \in BoundInputs
  /\ strokes # <<>>
  /\ strokes[1][1] = strokes[1][2]
  /\ data[1].x # data[2].x

\* C13 (as claimed): while the state is not Recording (Idle after a stop,
\* and the CountingDown that follows) no step changes the sample sequence:
\* no sample is appended and the stopped recording's samples stay as they
\* are until the countdown callback's updates are rendered.
C13_FrozenOutsideRecording ==
  [][(~recording /\ ~recording') => data' = data]_vars

\* C14: a sampler interval is registered only while the state is
\* Recording, at most one is registered at any time (also when a change of
\* scale restarts the sampler), the registered one is the one the sampler
\* effect holds, and no tick runs once the recording is stopped.
C14_SamplerReleased ==
  /\ [](liveIntervals <= 1)
  /\ [](liveIntervals = (IF iv # Null THEN 1 ELSE 0))
  /\ [](liveIntervals > 0 => State = "Recording")
  /\ [][ticks' = ticks + 1 => (recording /\ recording')]_vars

\* a recording was stopped after an edit of maxX had restarted its sampler
C14_Witness ==
  /\ ~recording
  /\ called
  /\ liveIntervals = 0
  /\ Len(data) >= 2
  /\ strokes # <<>>
  /\ strokes[1][1] = strokes[1][2]
  /\ data[1].x # data[2].x

\* the countdown callback's setData([]) is still batched: the samples in
\* `data` are those of the session before
SessionPending == \E i \in 1..Len(queue) : queue[i].op = "clearData"

\* C15: in a session the first accepted sample strokes no segment and every
\* later one strokes the segment from the raw offset accepted before it to
\* its own, so the segments stroked number max(0, samples - 1) and form one
\* chain, and lastPointRef is the raw offset of the last accepted sample
\* (unset while the session has no sample).
C15_TraceFollowsSamples ==
  ~SessionPending =>
    /\ Len(drawn) = (IF data = <<>> THEN 0 ELSE Len(data) - 1)
    /\ (lastPointRef = Null) <=> (data = <<>>)
    /\ \A i \in 1..Len(drawn) :
         IF i < Len(drawn)
           THEN drawn[i][2] = drawn[i + 1][1]
           ELSE drawn[i][2] = lastPointRef[1]

\* the second session has its first sample; the bitmap still holds the
\* segment the first session stroked (no image was there to redraw), and
\* this session has stroked none from that session's last point
C15_Witness ==
  /\ recording
  /\ startTime >= 3 * Period
  /\ Len(data) = 1
  /\ drawn = <<>>
  /\ strokes # <<>>
  /\ lastPointRef # Null

\* a tick's setData updater (append the sample, stroke its segment, move
\* lastPointRef) is batched and has not run yet
AppendPending == \E i \in 1..Len(queue) : queue[i].op = "append"

\* C16 (as claimed): the sample of a tick is appended and its segment
\* stroked before the next tick reads the pointer position: when a tick
\* runs, no earlier tick's append-and-stroke work is still to be done.
C16_TickWorkDoneBeforeNextTick ==
  [][ticks' = ticks + 1 => ~AppendPending]_vars

\* ------------------------------------------------------------- liveness
\* The recorder under the scheduling the browser and React provide: time
\* passes, a timer that is due has its callback run, a batched update is
\* rendered and the effects of a commit are run.
SpecLive ==
  /\ Init
  /\ [][Next]_vars
  /\ WF_vars(Countdown)
  /\ WF_vars(Timeout)
  /\ WF_vars(Render)
  /\ WF_vars(FlushEffects)

\* the clock reading up to which a countdown armed now is followed through
Horizon == Period * (2 * MaxSessions - 1)

\* every countdown armed leads to Recording
ArmedLeadsToRecording ==
  (State = "CountingDown" /\ now < Horizon) ~> (State = "Recording")

\* C17 (as claimed): a Space accepted in Idle is eventually followed by
\* Recording, the countdown callback running once per arming, and a Space
\* received in Recording always brings the state back to Idle.
C17_LifecycleLive ==
  /\ ArmedLeadsToRecording
  /\ [](Len(timeouts) <= 1)
  /\ [][(State = "Recording" /\ lastEvent' = "keydown")
          => State' = "Idle"]_vars

\* C18: `recording` and `waiting` are never both set, neither in a
\* committed render nor in the render the batched updates lead to: the
\* countdown callback's setRecording(true) and setWaiting(false) are
\* rendered together.
C18_FlagsExclusive ==
  /\ ~(recording /\ waiting)
  /\ LET s == ApplyAll(Current, queue) IN ~(s.recording /\ s.waiting)

\* the countdown callback has just run: its updates are batched, the
\* committed state is still CountingDown
C18_Witness ==
  /\ State = "CountingDown"
  /\ SessionPending
  /\ ApplyAll(Current, queue).recording
  /\ firedAt = now
  /\ timeouts = <<>>

\* the sample p lies in the logical bounds of the committed render
WithinBounds(p) ==
  /\ 0 <= p.x /\ p.x <= 100 * maxX
  /\ 0 <= p.y /\ p.y <= 100 * maxY

\* C19 (as claimed): with an image loaded and maxX, maxY positive, the
\* sample a tick appends lies in the logical bounds in effect at that tick,
\* 0 <= x <= maxX and 0 <= y <= maxY, also when the bounds are edited or
\* the window is resized during the recording.
C19_SamplesWithinBounds ==
  [][(ticks' = ticks + 1 /\ Loaded(image) /\ maxX > 0 /\ maxY > 0)
       => \A i \in (Len(PendingData) + 1)..Len(PendingData') :
            WithinBounds(PendingData'[i])]_vars

====
